---- MODULE Spec2Model ----
(***************************************************************************)
(* A model of lab3.py: a directory monitor that polls a folder, keeps one   *)
(* record per file (File / ImageFile / TextFile / ProgramFile), diffs each  *)
(* listing against the previous snapshot and prints de-duplicated           *)
(* notifications, next to a console offering commit / info / status.        *)
(*                                                                          *)
(* Spec      every handler (scan_files, commit, status, info) is one        *)
(*           action; the file system changes between handlers.              *)
(* SpecConc  the background thread's scan_files and the console's commit    *)
(*           are split at the statements that touch the file system or the  *)
(*           shared dictionaries, and interleave with each other and with   *)
(*           the file system.                                               *)
(* SpecPlain, SpecMonitor, SpecQuery and SpecBackground restrict Spec or    *)
(* SpecConc to some names or some handlers; FairBackground adds the         *)
(* scheduling of the background thread.                                     *)
(***************************************************************************)
EXTENDS Integers, Sequences, FiniteSets, TLC

(***************************************************************************)
(* Bounds of the model.                                                     *)
(***************************************************************************)
\* mtimes are counted in ticks; one microsecond is TicksPerMicro ticks, so
\* that a float mtime finer than a microsecond has a value of its own
TicksPerMicro == 2
\* the largest mtime (in ticks) the file system hands out
MaxMtime == 2

(***************************************************************************)
(* File names, as sequences of characters.                                  *)
(***************************************************************************)
a_txt == <<"a", ".", "t", "x", "t">>
b_py == <<"b", ".", "p", "y">>
dot_txt == <<".", "t", "x", "t">>
A_TXT == <<"A", ".", "T", "X", "T">>

\* the sets of names one run of the program may meet in the watched folder
Universes == {{a_txt, b_py}, {dot_txt, A_TXT}}

UpperLetters ==
  <<"A","B","C","D","E","F","G","H","I","J","K","L","M",
    "N","O","P","Q","R","S","T","U","V","W","X","Y","Z">>

LowerLetters ==
  <<"a","b","c","d","e","f","g","h","i","j","k","l","m",
    "n","o","p","q","r","s","t","u","v","w","x","y","z">>

\* str.lower() on one character
LowerChar(c) ==
  IF \E i \in 1..Len(UpperLetters) : UpperLetters[i] = c
  THEN LowerLetters[CHOOSE i \in 1..Len(UpperLetters) : UpperLetters[i] = c]
  ELSE c

\* str.lower()
Lower(s) == [i \in 1..Len(s) |-> LowerChar(s[i])]

\* str.endswith(suffix)
EndsWith(s, suffix) ==
  /\ Len(s) >= Len(suffix)
  /\ SubSeq(s, Len(s) - Len(suffix) + 1, Len(s)) = suffix

\* str.rfind('.') + 1, 0 when there is no dot
LastDot(s) ==
  IF \E i \in 1..Len(s) : s[i] = "."
  THEN CHOOSE i \in 1..Len(s) : s[i] = "." /\ \A j \in (i+1)..Len(s) : s[j] # "."
  ELSE 0

\* os.path.splitext(filename)[1]: the suffix from the last dot on, unless
\* that dot is preceded by dots only (a leading dot starts no extension)
SplitExt(s) ==
  LET d == LastDot(s) IN
    IF d > 0 /\ \E i \in 1..(d-1) : s[i] # "."
    THEN SubSeq(s, d, Len(s))
    ELSE <<>>

\* FileMonitor.FILE_TYPES.get(ext, File)
FILE_TYPES(ext) ==
  CASE ext = <<".", "p", "n", "g">> -> "ImageFile"
    [] ext = <<".", "j", "p", "g">> -> "ImageFile"
    [] ext = <<".", "j", "p", "e", "g">> -> "ImageFile"
    [] ext = <<".", "t", "x", "t">> -> "TextFile"
    [] ext = <<".", "p", "y">> -> "ProgramFile"
    [] ext = <<".", "j", "a", "v", "a">> -> "ProgramFile"
    [] OTHER -> "File"

\* scan_files: ext = os.path.splitext(filename)[1].lower(); the class
Classify(filename) == FILE_TYPES(Lower(SplitExt(filename)))

\* detect_changes: filename.endswith('.txt')
EndsWithTxt(filename) == EndsWith(filename, <<".", "t", "x", "t">>)

(***************************************************************************)
(* Timestamps.  An mtime is a float number of seconds (here: ticks); a      *)
(* datetime holds whole microseconds.                                       *)
(***************************************************************************)
\* datetime.fromtimestamp(t): rounds to the nearest microsecond, ties to even
FromTimestamp(t) ==
  LET q == t \div TicksPerMicro
      r == t % TicksPerMicro
  IN  IF 2 * r < TicksPerMicro THEN q
      ELSE IF 2 * r > TicksPerMicro THEN q + 1
      ELSE IF q % 2 = 0 THEN q ELSE q + 1

\* datetime.timestamp(): back to a float
Timestamp(dt) == dt * TicksPerMicro

(***************************************************************************)
(* The file system entry of one name.                                       *)
(***************************************************************************)
Absent == [present |-> FALSE, mtime |-> 0, content |-> "hello", readable |-> TRUE]

Mtimes == 0..MaxMtime

\* the texts a file may hold
Contents == {"hello", "world"}

\* the value of a content hash that could not be computed
None == <<>>

\* hash(content): a Python str hash, one value per content
Hash(content) == <<"hash", content>>

(***************************************************************************)
(* State.                                                                   *)
(***************************************************************************)
VARIABLES
  dir,                  \* the names this run may meet in the watched folder
  fs,                   \* the watched folder: name -> file system entry
  files,                \* FileMonitor.files: filename -> record
  last_displayed_state, \* FileMonitor.last_displayed_state
  out,                  \* the lines the last step printed
  lastOp,               \* the handler the last step ran ("none": no handler)
  started,              \* Console.__init__ has returned
  monitor,              \* the background thread: "running" or "dead"
  console,              \* the console loop: "running", "exited" or "crashed"
  scanT,                \* the locals of a scan_files call in progress
  consT,                \* the locals of a commit call in progress
  touched,              \* name -> the file was written, removed or created
                        \*         since the last scan
  advanced,             \* name -> the file's mtime advanced since the last
                        \*         scan or commit, the file staying in place
  newLines,             \* name -> the "is a new file" lines printed for it
                        \*         since the scan that found it added (that
                        \*         scan included), NoEpoch once it is removed
  committed             \* commit() has returned and the file system has not
                        \* changed since

vars == <<dir, fs, files, last_displayed_state, out, lastOp, started, monitor,
          console, scanT, consT, touched, advanced, newLines, committed>>

\* one printed line
Line(kind, name) == [kind |-> kind, name |-> name]

\* the orders in which a set (or the keys of a dict) may be iterated
Orders(S) ==
  {s \in [1..Cardinality(S) -> S] : \A i, j \in 1..Cardinality(S) : s[i] = s[j] => i = j}

\* how many times a line occurs in a printed output
Count(lines, l) == Cardinality({i \in 1..Len(lines) : lines[i] = l})

(***************************************************************************)
(* File records.                                                            *)
(***************************************************************************)
\* only a TextFile's content is read by scan_files, commit and status: the
\* file system varies the content and the permissions of those names alone
ContentsOf(f) == IF Classify(f) = "TextFile" THEN Contents ELSE {"hello"}

ReadablesOf(f) == IF Classify(f) = "TextFile" THEN BOOLEAN ELSE {TRUE}

Entries(f) ==
  {Absent} \cup
  [present : {TRUE}, mtime : Mtimes, content : ContentsOf(f), readable : ReadablesOf(f)]

\* TextFile.compute_content_hash: hash(content), None when open/read raises
compute_content_hash(entry) ==
  IF entry.present /\ entry.readable THEN Hash(entry.content) ELSE None

\* File.__init__ / TextFile.__init__ on a path that exists
NewRecord(f, entry) ==
  [cls |-> Classify(f),
   last_updated_date |-> FromTimestamp(entry.mtime),
   content_hash |-> IF Classify(f) = "TextFile" THEN compute_content_hash(entry) ELSE None]

\* has_changed() that also answers True when the content hash has moved
has_changed_or_edited(rec, entry) ==
  \/ Timestamp(rec.last_updated_date) # entry.mtime
  \/ (rec.cls = "TextFile" /\ compute_content_hash(entry) # rec.content_hash)

\* File.has_changed, the file being there
has_changed(rec, entry) == Timestamp(rec.last_updated_date) # entry.mtime

\* File.update_last_modified / TextFile.update_last_modified, the file being there
update_last_modified(rec, entry) ==
  [rec EXCEPT !.last_updated_date = FromTimestamp(entry.mtime),
              !.content_hash = IF rec.cls = "TextFile"
                               THEN compute_content_hash(entry) ELSE @]

\* TextFile.has_content_changed
has_content_changed(rec, entry) == compute_content_hash(entry) # rec.content_hash

\* os.listdir filtered by os.path.isfile
ListDir(d, fsys) == {f \in d : fsys[f].present}

(***************************************************************************)
(* detect_changes.                                                          *)
(***************************************************************************)
\* added_files = new_files - old_files
AddedFiles(old, new) == new \ old

\* deleted_files = old_files - new_files
DeletedFiles(old, new) == old \ new

\* the names the first loop appends to changed_files
ChangedFiles(olds, fsys, new) ==
  {f \in (DOMAIN olds) \cap new : has_changed(olds[f], fsys[f])}

\* self.files after the first loop: update_last_modified on each changed record
AfterFirstLoop(olds, fsys, new) ==
  [f \in DOMAIN olds |->
     IF f \in ChangedFiles(olds, fsys, new)
     THEN update_last_modified(olds[f], fsys[f]) ELSE olds[f]]

\* filename not in last_displayed_state or last_displayed_state[filename] != category
ShouldDisplay(lds, f, category) == f \notin DOMAIN lds \/ lds[f] # category

\* last_displayed_state[filename] = category
Displayed(lds, f, category) ==
  [g \in DOMAIN lds \cup {f} |-> IF g = f THEN category ELSE lds[g]]

\* the loop over added_files (kind "added") or deleted_files (kind "deleted"),
\* iterated in the order ord, from its i-th name on
RECURSIVE SimpleLoop(_, _, _, _)
SimpleLoop(ord, i, category, acc) ==
  IF i > Len(ord) THEN acc
  ELSE LET f == ord[i] IN
    IF ShouldDisplay(acc.lds, f, category)
    THEN SimpleLoop(ord, i + 1, category,
                    [acc EXCEPT !.lines = Append(@, Line(category, f)),
                                !.lds = Displayed(@, f, category)])
    ELSE SimpleLoop(ord, i + 1, category, acc)

\* filename.endswith('.txt') and self.files[filename].has_content_changed():
\* a record that is no TextFile has no such method (AttributeError)
ContentCheckRaises(f, rec) == EndsWithTxt(f) /\ rec.cls # "TextFile"

ContentCheck(f, rec, entry) == EndsWithTxt(f) /\ has_content_changed(rec, entry)

\* the loop over changed_files, iterated in the order ord, from its i-th name
\* on; olds is self.files after the first loop
RECURSIVE ChangedLoop(_, _, _, _, _)
ChangedLoop(ord, i, olds, fsys, acc) ==
  IF i > Len(ord) \/ acc.raised THEN acc
  ELSE LET f == ord[i] IN
    IF ShouldDisplay(acc.lds, f, "changed")
    THEN IF ContentCheckRaises(f, olds[f])
         THEN [acc EXCEPT !.lines = Append(@, Line("changed", f)), !.raised = TRUE]
         ELSE ChangedLoop(ord, i + 1, olds, fsys,
                [acc EXCEPT
                   !.lines = IF ContentCheck(f, olds[f], fsys[f])
                             THEN @ \o <<Line("changed", f), Line("modified", f)>>
                             ELSE Append(@, Line("changed", f)),
                   !.lds = Displayed(@, f, "changed")])
    ELSE ChangedLoop(ord, i + 1, olds, fsys, acc)

\* the message loops with the loop over changed_files moved to the front
MessageLoopsChangedFirst(olds, lds, fsys, oa, od, oc) ==
  LET c == ChangedLoop(oc, 1, olds, fsys, [lines |-> <<>>, lds |-> lds, raised |-> FALSE])
      a == IF c.raised THEN c ELSE SimpleLoop(oa, 1, "added", c)
  IN  IF a.raised THEN a ELSE SimpleLoop(od, 1, "deleted", a)

\* the three message loops in the order of the code; olds is self.files after
\* the first loop, fsys the file system the content check reads.  The result:
\* changes_to_display, last_displayed_state, and whether the call raised
MessageLoops(olds, lds, fsys, oa, od, oc) ==
  LET a == SimpleLoop(oa, 1, "added", [lines |-> <<>>, lds |-> lds, raised |-> FALSE])
      d == SimpleLoop(od, 1, "deleted", a)
  IN  ChangedLoop(oc, 1, olds, fsys, d)

(***************************************************************************)
(* Initial state: the process has started, Console(folder_path) has not     *)
(* run yet.  The folder holds any files; FileMonitor.__init__ starts from   *)
(* empty dictionaries and its scan_files call is the first step.            *)
(***************************************************************************)
\* the locals of scan_files / detect_changes: where the call stands, the
\* names its current loop has still to visit, the path whose isfile() test
\* has passed and whose record is being built (at most one), current_files
\* and changed_files
IdleScan == [pc |-> "idle", todo |-> {}, path |-> {}, cur |-> <<>>, changed |-> <<>>]

\* the locals of commit: where the call stands, the records its loop has
\* still to visit, and whether self.files was replaced under the loop (the
\* loop then walks the records of the replaced dictionary)
IdleCons == [pc |-> "idle", todo |-> {}, stale |-> FALSE]

NoFlags(d) == [f \in d |-> FALSE]

\* newLines of a file no scan has found added since it was last removed
NoEpoch == 0 - 1

\* newLines after a scan that printed lines, whose added_files was added
CountNew(counts, added, lines) ==
  [f \in DOMAIN counts |->
     IF f \in added THEN Count(lines, Line("added", f))
     ELSE IF counts[f] = NoEpoch THEN NoEpoch
     ELSE counts[f] + Count(lines, Line("added", f))]

InitFor(d) ==
  /\ dir = d
  /\ fs \in {e \in [dir -> UNION {Entries(f) : f \in dir}] : \A f \in dir : e[f] \in Entries(f)}
  /\ files = <<>>
  /\ last_displayed_state = <<>>
  /\ out = <<>>
  /\ lastOp = "none"
  /\ started = FALSE
  /\ monitor = "running"
  /\ console = "running"
  /\ scanT = IdleScan
  /\ consT = IdleCons
  /\ touched = NoFlags(dir)
  /\ advanced = NoFlags(dir)
  /\ newLines = [f \in dir |-> NoEpoch]
  /\ committed = FALSE

Init == \E d \in Universes : InitFor(d)

\* the process is alive and no handler is in the middle of a call
Alive == console = "running"

Quiet == scanT.pc = "idle" /\ consT.pc = "idle"

(***************************************************************************)
(* The file system (other programs writing to the watched folder).          *)
(***************************************************************************)
EnvFrame ==
  /\ out' = <<>>
  /\ lastOp' = "none"
  /\ committed' = FALSE
  /\ UNCHANGED <<dir, files, last_displayed_state, started, monitor, console,
                 scanT, consT>>

\* a file appears
FsCreate(f) ==
  /\ Alive /\ started
  /\ ~fs[f].present
  /\ \E e \in Entries(f) \ {Absent} : e.readable /\ fs' = [fs EXCEPT ![f] = e]
  /\ EnvFrame

\* a file disappears
FsRemove(f) ==
  /\ Alive /\ started
  /\ fs[f].present
  /\ fs' = [fs EXCEPT ![f] = Absent]
  /\ EnvFrame

\* a file is written: its mtime advances, its content changes or stays
FsModify(f) ==
  /\ Alive /\ started
  /\ fs[f].present
  /\ \E m \in Mtimes, c \in ContentsOf(f) :
       /\ m > fs[f].mtime
       /\ fs' = [fs EXCEPT ![f].mtime = m, ![f].content = c]
  /\ EnvFrame

\* a file's content is replaced and its mtime put back (os.utime, or a clock
\* too coarse to tell the two writes apart)
FsEditKeepMtime(f) ==
  /\ Alive /\ started
  /\ fs[f].present
  /\ \E c \in ContentsOf(f) : c # fs[f].content /\ fs' = [fs EXCEPT ![f].content = c]
  /\ EnvFrame

\* a file's read permission is flipped; stat() still answers
FsChmod(f) ==
  /\ Alive /\ started
  /\ fs[f].present
  /\ \E r \in ReadablesOf(f) : r # fs[f].readable /\ fs' = [fs EXCEPT ![f].readable = r]
  /\ EnvFrame

\* what a file system step on f does to the history of f
Noted(f, touch, adv, removed) ==
  /\ touched' = [touched EXCEPT ![f] = @ \/ touch]
  /\ advanced' = [advanced EXCEPT ![f] = adv]
  /\ newLines' = [newLines EXCEPT ![f] = IF removed THEN NoEpoch ELSE @]

Create(f) == FsCreate(f) /\ Noted(f, TRUE, FALSE, FALSE)

Remove(f) == FsRemove(f) /\ Noted(f, TRUE, FALSE, TRUE)

Modify(f) == FsModify(f) /\ Noted(f, TRUE, TRUE, FALSE)

EditKeepMtime(f) == FsEditKeepMtime(f) /\ Noted(f, TRUE, advanced[f], FALSE)

Chmod(f) == FsChmod(f) /\ Noted(f, FALSE, advanced[f], FALSE)

Env == \E f \in dir : Create(f) \/ Remove(f) \/ Modify(f) \/ EditKeepMtime(f) \/ Chmod(f)

(***************************************************************************)
(* The handlers, each as one step.                                          *)
(***************************************************************************)
\* FileMonitor.scan_files, called by __init__ (not started) or by
\* real_time_monitor (started).  An exception ends the calling thread: the
\* snapshot is not replaced and nothing is printed.
ScanFiles ==
  /\ Alive /\ Quiet
  /\ started => monitor = "running"
  /\ LET new == ListDir(dir, fs)
         current_files == [f \in new |-> NewRecord(f, fs[f])]
         olds == AfterFirstLoop(files, fs, new)
     IN \E oa \in Orders(AddedFiles(DOMAIN files, new)),
           od \in Orders(DeletedFiles(DOMAIN files, new)),
           oc \in Orders(ChangedFiles(files, fs, new)) :
          LET r == MessageLoops(olds, last_displayed_state, fs, oa, od, oc) IN
            /\ last_displayed_state' = r.lds
            /\ newLines' = CountNew(newLines, AddedFiles(DOMAIN files, new),
                                    IF r.raised THEN <<>> ELSE r.lines)
            /\ IF r.raised
               THEN /\ files' = olds
                    /\ out' = <<>>
                    /\ monitor' = IF started THEN "dead" ELSE monitor
                    /\ console' = IF started THEN console ELSE "crashed"
                    /\ UNCHANGED started
               ELSE /\ files' = current_files
                    /\ out' = r.lines
                    /\ started' = TRUE
                    /\ UNCHANGED <<monitor, console>>
  /\ lastOp' = "scan"
  /\ touched' = NoFlags(dir)
  /\ advanced' = NoFlags(dir)
  /\ UNCHANGED <<dir, fs, scanT, consT, committed>>

\* the first place of ord whose file is gone: os.path.getmtime raises there
FirstMissing(ord, fsys) ==
  IF \E i \in 1..Len(ord) : ~fsys[ord[i]].present
  THEN CHOOSE i \in 1..Len(ord) :
         ~fsys[ord[i]].present /\ \A j \in 1..(i-1) : fsys[ord[j]].present
  ELSE Len(ord) + 1

\* FileMonitor.commit: update_last_modified on every record, in dict order;
\* an exception ends the console loop and the process with it
Commit ==
  /\ Alive /\ Quiet /\ started
  /\ \E ord \in Orders(DOMAIN files) :
       LET k == FirstMissing(ord, fs)
           done == {ord[i] : i \in 1..(k-1)}
       IN /\ files' = [f \in DOMAIN files |->
                         IF f \in done THEN update_last_modified(files[f], fs[f])
                         ELSE files[f]]
          /\ advanced' = [f \in dir |-> IF f \in done THEN FALSE ELSE advanced[f]]
          /\ IF k <= Len(ord)
             THEN out' = <<>> /\ console' = "crashed" /\ UNCHANGED committed
             ELSE out' = <<Line("committed", <<>>)>> /\ committed' = TRUE
                  /\ UNCHANGED console
  /\ lastOp' = "commit"
  /\ UNCHANGED <<dir, fs, last_displayed_state, started, monitor, scanT, consT,
                 touched, newLines>>

\* status() that also calls update_last_modified() on each record it reports
StatusRefreshing ==
  /\ Alive /\ started /\ consT.pc = "idle"
  /\ \E ord \in Orders(DOMAIN files) :
       LET k == FirstMissing(ord, fs) IN
         /\ out' = [i \in 1..(k-1) |->
                      Line(IF has_changed(files[ord[i]], fs[ord[i]])
                           THEN "status changed" ELSE "status unchanged", ord[i])]
         /\ files' = [f \in DOMAIN files |->
                        IF f \in {ord[i] : i \in 1..(k-1)}
                        THEN update_last_modified(files[f], fs[f]) ELSE files[f]]
         /\ console' = IF k <= Len(ord) THEN "crashed" ELSE console
  /\ lastOp' = "status"
  /\ UNCHANGED <<dir, fs, last_displayed_state, started, monitor, scanT,
                 consT, touched, advanced, newLines, committed>>

\* FileMonitor.status: one line per record, in dict order; has_changed raises
\* on a file that is gone, after the lines before it were printed
Status ==
  /\ Alive /\ started /\ consT.pc = "idle"
  /\ \E ord \in Orders(DOMAIN files) :
       LET k == FirstMissing(ord, fs) IN
         /\ out' = [i \in 1..(k-1) |->
                      Line(IF has_changed(files[ord[i]], fs[ord[i]])
                           THEN "status changed" ELSE "status unchanged", ord[i])]
         /\ console' = IF k <= Len(ord) THEN "crashed" ELSE console
  /\ lastOp' = "status"
  /\ UNCHANGED <<dir, fs, files, last_displayed_state, started, monitor, scanT,
                 consT, touched, advanced, newLines, committed>>

\* FileMonitor.info(filename): the record's info mapping (its file-reading
\* fields degrade to 'Unable to read'), or the not-found line
Info(f) ==
  /\ Alive /\ started /\ consT.pc = "idle"
  /\ out' = IF f \in DOMAIN files
            THEN <<Line(IF files[f].cls \in {"TextFile", "ProgramFile"}
                           /\ ~(fs[f].present /\ fs[f].readable)
                        THEN "info unable to read" ELSE "info", f)>>
            ELSE <<Line("not found", f)>>
  /\ lastOp' = "info"
  /\ UNCHANGED <<dir, fs, files, last_displayed_state, started, monitor, console,
                 scanT, consT, touched, advanced, newLines, committed>>

\* the 'exit' command: the loop breaks and the process ends, the daemon thread
\* and the monitor's dictionaries with it
Exit ==
  /\ Alive /\ started /\ consT.pc = "idle"
  /\ console' = "exited"
  /\ files' = <<>>
  /\ last_displayed_state' = <<>>
  /\ out' = <<Line("exiting", <<>>)>>
  /\ lastOp' = "exit"
  /\ monitor' = "dead"
  /\ touched' = NoFlags(dir)
  /\ advanced' = NoFlags(dir)
  /\ newLines' = [f \in dir |-> NoEpoch]
  /\ committed' = FALSE
  /\ scanT' = IdleScan
  /\ UNCHANGED <<dir, fs, started, consT>>

Next ==
  \/ Env
  \/ ScanFiles
  \/ Commit
  \/ Status
  \/ \E f \in dir : Info(f)
  \/ Exit

Spec == Init /\ [][Next]_vars

\* the runs over the ordinary names a.txt and b.py: each name that ends in
\* ".txt" is a TextFile there, so no content check raises
InitPlain == InitFor({a_txt, b_py})

SpecPlain == InitPlain /\ [][Next]_vars

\* the handlers that change what a scan finds and prints: status, info and
\* exit leave the dictionaries as they are (or end the run)
NextMonitor ==
  \/ Env
  \/ ScanFiles
  \/ Commit

SpecMonitor == Init /\ [][NextMonitor]_vars

(***************************************************************************)
(* The two threads, statement by statement.  The background thread runs     *)
(* real_time_monitor; the main thread runs the console loop.  No lock is    *)
(* taken anywhere in the program: a step of one thread may follow any step  *)
(* of the other, and the file system may change between any two steps.      *)
(***************************************************************************)
\* the histories of Spec's claims are not kept while the threads interleave
NoHistory == UNCHANGED <<touched, advanced, newLines>>

\* FileMonitor.__init__: the first scan_files, before any thread is started
Construct == ~started /\ ScanFiles

\* an exception leaves real_time_monitor: the background thread ends
ScanRaises ==
  /\ monitor' = "dead"
  /\ scanT' = IdleScan
  /\ out' = <<>>
  /\ lastOp' = "scan"

\* scan_files: os.listdir(self.folder_path)
ScanList ==
  /\ Alive /\ started /\ monitor = "running"
  /\ scanT.pc = "idle"
  /\ scanT' = [IdleScan EXCEPT !.pc = "build", !.todo = ListDir(dir, fs)]
  /\ out' = <<>>
  /\ lastOp' = "none"
  /\ UNCHANGED <<dir, fs, files, last_displayed_state, started, monitor, console,
                 consT, committed>>
  /\ NoHistory

\* scan_files: os.path.isfile(file_path) for the next name of the listing; a
\* name that is gone by now is skipped
ScanIsFile(f) ==
  /\ Alive /\ monitor = "running"
  /\ scanT.pc = "build" /\ scanT.path = {} /\ f \in scanT.todo
  /\ scanT' = [scanT EXCEPT !.todo = @ \ {f},
                            !.path = IF fs[f].present THEN {f} ELSE {}]
  /\ out' = <<>>
  /\ lastOp' = "none"
  /\ UNCHANGED <<dir, fs, files, last_displayed_state, started, monitor, console,
                 consT, committed>>
  /\ NoHistory

\* scan_files: current_files[filename] = file_class(file_path); os.path.getctime
\* raises FileNotFoundError when the file went away after isfile()
ScanBuild(f) ==
  /\ Alive /\ monitor = "running"
  /\ scanT.pc = "build" /\ scanT.path = {f}
  /\ IF fs[f].present
     THEN /\ scanT' = [scanT EXCEPT
                         !.path = {},
                         !.cur = [g \in DOMAIN @ \cup {f} |->
                                    IF g = f THEN NewRecord(f, fs[f]) ELSE @[g]]]
          /\ out' = <<>>
          /\ lastOp' = "none"
          /\ UNCHANGED monitor
     ELSE ScanRaises
  /\ UNCHANGED <<dir, fs, files, last_displayed_state, started, console, consT,
                 committed>>
  /\ NoHistory

\* detect_changes: old_files, new_files, added_files, deleted_files
ScanDiff ==
  /\ Alive /\ monitor = "running"
  /\ scanT.pc = "build" /\ scanT.path = {} /\ scanT.todo = {}
  /\ scanT' = [scanT EXCEPT !.pc = "check",
                            !.todo = (DOMAIN files) \cap (DOMAIN scanT.cur)]
  /\ out' = <<>>
  /\ lastOp' = "none"
  /\ UNCHANGED <<dir, fs, files, last_displayed_state, started, monitor, console,
                 consT, committed>>
  /\ NoHistory

\* detect_changes, first loop, one name: has_changed() and, if so,
\* changed_files.append and update_last_modified() on the old record;
\* os.path.getmtime raises FileNotFoundError when the file is gone
ScanCheck(f) ==
  /\ Alive /\ monitor = "running"
  /\ scanT.pc = "check" /\ f \in scanT.todo
  /\ IF fs[f].present
     THEN /\ scanT' = [scanT EXCEPT
                         !.todo = @ \ {f},
                         !.changed = IF has_changed(files[f], fs[f])
                                     THEN Append(@, f) ELSE @]
          /\ files' = [files EXCEPT
                         ![f] = IF has_changed(files[f], fs[f])
                                THEN update_last_modified(files[f], fs[f]) ELSE @]
          /\ out' = <<>>
          /\ lastOp' = "none"
          /\ UNCHANGED monitor
     ELSE ScanRaises /\ UNCHANGED files
  /\ UNCHANGED <<dir, fs, last_displayed_state, started, console, consT, committed>>
  /\ NoHistory

\* detect_changes, the three message loops and the printing
ScanReport ==
  /\ Alive /\ monitor = "running"
  /\ scanT.pc = "check" /\ scanT.todo = {}
  /\ \E oa \in Orders(AddedFiles(DOMAIN files, DOMAIN scanT.cur)),
        od \in Orders(DeletedFiles(DOMAIN files, DOMAIN scanT.cur)) :
       LET r == MessageLoops(files, last_displayed_state, fs, oa, od, scanT.changed) IN
         /\ last_displayed_state' = r.lds
         /\ IF r.raised
            THEN ScanRaises
            ELSE /\ scanT' = [scanT EXCEPT !.pc = "swap"]
                 /\ out' = r.lines
                 /\ lastOp' = "scan"
                 /\ UNCHANGED monitor
  /\ UNCHANGED <<dir, fs, files, started, console, consT, committed>>
  /\ NoHistory

\* scan_files: self.files = current_files; a commit loop under way keeps
\* walking the records of the dictionary it started on
ScanSwap ==
  /\ Alive /\ monitor = "running"
  /\ scanT.pc = "swap"
  /\ files' = scanT.cur
  /\ scanT' = IdleScan
  /\ consT' = [consT EXCEPT !.stale = (consT.pc = "commit")]
  /\ out' = <<>>
  /\ lastOp' = "none"
  /\ UNCHANGED <<dir, fs, last_displayed_state, started, monitor, console, committed>>
  /\ NoHistory

ScanStep ==
  \/ ScanList
  \/ \E f \in dir : ScanIsFile(f)
  \/ \E f \in dir : ScanBuild(f)
  \/ ScanDiff
  \/ \E f \in dir : ScanCheck(f)
  \/ ScanReport
  \/ ScanSwap

\* commit: self.snapshot_time = datetime.now(); the loop starts on
\* self.files.values()
CommitStart ==
  /\ Alive /\ started
  /\ consT.pc = "idle"
  /\ consT' = [pc |-> "commit", todo |-> DOMAIN files, stale |-> FALSE]
  /\ out' = <<>>
  /\ lastOp' = "none"
  /\ UNCHANGED <<dir, fs, files, last_displayed_state, started, monitor, console,
                 scanT, committed>>
  /\ NoHistory

\* commit, one record: file.update_last_modified(); os.path.getmtime raises
\* FileNotFoundError when the file is gone, which ends the console loop
CommitFile(f) ==
  /\ Alive
  /\ consT.pc = "commit" /\ f \in consT.todo
  /\ IF fs[f].present
     THEN /\ consT' = [consT EXCEPT !.todo = @ \ {f}]
          /\ files' = IF consT.stale \/ f \notin DOMAIN files THEN files
                      ELSE [files EXCEPT ![f] = update_last_modified(@, fs[f])]
          /\ UNCHANGED console
     ELSE /\ console' = "crashed"
          /\ consT' = IdleCons
          /\ UNCHANGED files
  /\ out' = <<>>
  /\ lastOp' = "none"
  /\ UNCHANGED <<dir, fs, last_displayed_state, started, monitor, scanT, committed>>
  /\ NoHistory

\* commit: print(f"[INFO] Snapshot committed at ...")
CommitEnd ==
  /\ Alive
  /\ consT.pc = "commit" /\ consT.todo = {}
  /\ consT' = IdleCons
  /\ out' = <<Line("committed", <<>>)>>
  /\ lastOp' = "commit"
  /\ committed' = TRUE
  /\ UNCHANGED <<dir, fs, files, last_displayed_state, started, monitor, console,
                 scanT>>
  /\ NoHistory

\* the console loop: commit statement by statement; status, info and exit
\* between any two steps of the background thread
ConsoleStep ==
  \/ CommitStart
  \/ \E f \in dir : CommitFile(f)
  \/ CommitEnd
  \/ Status
  \/ \E f \in dir : Info(f)
  \/ Exit

\* the file system, between any two steps
EnvConc ==
  /\ \E f \in dir : FsCreate(f) \/ FsRemove(f) \/ FsModify(f) \/ FsEditKeepMtime(f) \/ FsChmod(f)
  /\ NoHistory

NextConc ==
  \/ Construct
  \/ EnvConc
  \/ ScanStep
  \/ ConsoleStep

\* the threads are followed on a folder that never holds another name than
\* a.txt
InitConc == InitFor({a_txt})

SpecConc == InitConc /\ [][NextConc]_vars

(***************************************************************************)
(* Claims checked under Spec (handlers run one at a time).                  *)
(***************************************************************************)
\* the lines of an output that name the file f
LinesAbout(lines, f) == {i \in 1..Len(lines) : lines[i].name = f}

\* C1: every mtime advance is announced once.  A scan that finds a tracked
\* file still in the folder, its mtime advanced since the previous scan or
\* commit, prints exactly one "<f> has changed." line, whatever was
\* announced for the file before.
C1_EveryAdvanceAnnounced ==
  [][ScanFiles =>
       \A f \in DOMAIN files :
         advanced[f] => Count(out', Line("changed", f)) = 1]_vars

\* C2: a file not touched between two consecutive scans gets no line of any
\* kind from the second scan, and status() between or after those scans
\* reports it unchanged.
C2_UntouchedIsSilent ==
  [][/\ (ScanFiles /\ started) =>
          \A f \in dir : ~touched[f] => LinesAbout(out', f) = {}
     /\ Status =>
          \A f \in DOMAIN files :
            ~touched[f] => Count(out', Line("status unchanged", f)) = 1]_vars

\* C3: whenever a scan finds a TextFile changed (mtime off the record's
\* baseline) and the file's content differs from the hash the record held
\* before the scan, the scan prints "A modification was detected in the
\* document '<f>'.", also when the "has changed" line is suppressed.
C3_ContentChangeAnnounced ==
  [][ScanFiles =>
       \A f \in ChangedFiles(files, fs, ListDir(dir, fs)) :
         (files[f].cls = "TextFile" /\ has_content_changed(files[f], fs[f]))
           => Count(out', Line("modified", f)) >= 1]_vars

\* C4: a scan that finds a tracked name gone prints "<f> was deleted."; a
\* scan that finds a name of the folder missing from the previous snapshot
\* prints "<f> is a new file." and no "<f> has changed.", whatever scans and
\* commits came before.
C4_RemovalAndAdditionAnnounced ==
  [][ScanFiles =>
       \A f \in dir :
         /\ (f \in DOMAIN files /\ ~fs[f].present)
              => Count(out', Line("deleted", f)) = 1
         /\ (f \notin DOMAIN files /\ fs[f].present)
              => /\ Count(out', Line("added", f)) = 1
                 /\ Count(out', Line("changed", f)) = 0]_vars

\* C5: from the scan that finds a file added on, as long as the file is not
\* removed, exactly one "<f> is a new file." line has been printed for it,
\* however many scans follow.
C5_OneNewFileLine ==
  \A f \in dir : newLines[f] # NoEpoch => newLines[f] = 1

\* C7: after commit() has returned (once or several times in a row) and with
\* no file system change since, status() reports every tracked file
\* unchanged and a scan prints no "has changed" line.
C7_CommitResetsBaseline ==
  [][/\ (Status /\ committed) =>
          \A f \in DOMAIN files : Count(out', Line("status unchanged", f)) = 1
     /\ (ScanFiles /\ committed) =>
          \A f \in dir : Count(out', Line("changed", f)) = 0]_vars

\* the place of a line's category in the order added, deleted, changed
Rank(kind) ==
  CASE kind = "added" -> 1
    [] kind = "deleted" -> 2
    [] kind \in {"changed", "modified"} -> 3
    [] OTHER -> 0

\* C9: in the output of one scan every "is a new file" line comes before
\* every "was deleted" line, which comes before every "has changed" line and
\* its content-modified line.
C9_EmissionOrder ==
  lastOp = "scan" =>
    \A i, j \in 1..Len(out) : i < j => Rank(out[i].kind) <= Rank(out[j].kind)

\* a scan has printed a "was deleted" line and, after it, a "has changed" line
C9_Witness ==
  /\ lastOp = "scan"
  /\ \E i, j \in 1..Len(out) : i < j /\ out[i].kind = "deleted" /\ out[j].kind = "changed"

\* C10: a TextFile record whose stored hash is None answers True to
\* has_content_changed(), also when the hash computed now is None as well.
C10_NullHashAlwaysDifferent ==
  \A f \in DOMAIN files :
    (files[f].cls = "TextFile" /\ files[f].content_hash = None)
      => has_content_changed(files[f], fs[f])

(***************************************************************************)
(* Claims checked under SpecConc (the threads interleave).                  *)
(***************************************************************************)
\* C6: scan, commit, status and info exclude one another on the shared
\* dictionaries: while a scan_files call of the background thread is under
\* way, no step of commit, status or info is taken.
C6_MutualExclusion ==
  [][scanT.pc # "idle" =>
       ~(\/ CommitStart
         \/ \E f \in dir : CommitFile(f)
         \/ CommitEnd
         \/ Status
         \/ \E f \in dir : Info(f))]_vars

\* C8: a file that goes away after the directory was listed never aborts the
\* scan: a scan_files call under way ends only by replacing the snapshot
\* with the records it built, the background thread still running (the
\* process ending on the console's side apart).
C8_ScanSurvivesFileLoss ==
  [][(scanT.pc # "idle" /\ scanT'.pc = "idle" /\ console' = "running")
       => (monitor' = "running" /\ files' = scanT.cur)]_vars

(***************************************************************************)
(* Frame conditions and the de-duplication memory (handlers one at a time). *)
(***************************************************************************)
\* the names whose last_displayed_state entry a step creates or overwrites
Written(before, after) ==
  {f \in DOMAIN after : f \notin DOMAIN before \/ after[f] # before[f]}

\* C11: last_displayed_state is written by a scan only, and only for a name
\* whose notification of the written category that scan prints; no entry is
\* ever dropped while the program runs; commit, status and info leave
\* last_displayed_state and the tracked names as they are.
C11_WrittenOnlyWhenEmitted ==
  [][console' # "exited" =>
       /\ DOMAIN last_displayed_state \subseteq DOMAIN last_displayed_state'
       /\ \A f \in Written(last_displayed_state, last_displayed_state') :
            /\ lastOp' = "scan"
            /\ Count(out', Line(last_displayed_state'[f], f)) >= 1
       /\ lastOp' \in {"commit", "status", "info"} =>
            /\ last_displayed_state' = last_displayed_state
            /\ DOMAIN files' = DOMAIN files]_vars

\* the commands a console user types: the queries next to the scans and
\* commits that build the records they read
NextQuery ==
  \/ Env
  \/ ScanFiles
  \/ Commit
  \/ Status
  \/ \E f \in dir : Info(f)

SpecQuery == InitPlain /\ [][NextQuery]_vars

\* C12: status() and info(filename) change no record (baseline, content
\* hash), no entry of self.files and no entry of last_displayed_state;
\* info(filename) prints the record's info mapping when filename is a key of
\* self.files and the not-found line otherwise.
C12_QueriesReadOnly ==
  [][/\ lastOp' \in {"status", "info"} =>
          /\ files' = files
          /\ last_displayed_state' = last_displayed_state
     /\ lastOp' = "info" =>
          /\ Len(out') = 1
          /\ out'[1].name \in DOMAIN files
               => out'[1].kind \in {"info", "info unable to read"}
          /\ out'[1].name \notin DOMAIN files
               => out'[1].kind = "not found"]_vars

\* status() has just reported a tracked file as changed
C12_Witness ==
  /\ lastOp = "status"
  /\ console = "running"
  /\ \E i \in 1..Len(out) : out[i].kind = "status changed"

(***************************************************************************)
(* Commit against a scan in progress (the threads interleave).              *)
(***************************************************************************)
\* every record of self.files whose file is there holds the file's mtime as
\* its baseline, at the resolution of the record's datetime
BaselinesCurrent ==
  \A f \in DOMAIN files :
    fs[f].present => files[f].last_updated_date = FromTimestamp(fs[f].mtime)

\* C13: once commit() has returned with every tracked record reset to the
\* file system's mtimes, and as long as the file system does not change,
\* the records of the tracked set stay reset (so that a scan starting later
\* finds no file changed), whatever steps of a scan_files call that was in
\* progress during the commit follow.
C13_CommitCoversTrackedSet ==
  [][(committed /\ BaselinesCurrent /\ committed') => BaselinesCurrent']_vars

(***************************************************************************)
(* The background thread on its own: real_time_monitor calls scan_files     *)
(* once a second for as long as the process lives, the console waiting at   *)
(* its prompt.                                                              *)
(***************************************************************************)
NextBackground ==
  \/ Construct
  \/ EnvConc
  \/ ScanStep

SpecBackground == InitConc /\ [][NextBackground]_vars

\* the thread is scheduled again and again: a step of scan_files that can be
\* taken is taken
FairBackground == SpecBackground /\ WF_vars(ScanStep)

\* f is in the folder and not in the snapshot
Untracked(f) == f \in dir /\ started /\ fs[f].present /\ f \notin DOMAIN files

\* f is in the snapshot and not in the folder
Vanished(f) == f \in dir /\ started /\ ~fs[f].present /\ f \in DOMAIN files

\* the last step printed the scan's line of this kind for f
Announced(kind, f) == lastOp = "scan" /\ Count(out, Line(kind, f)) >= 1

\* C14: real_time_monitor never stops scanning.  A file that is in the
\* folder and not in the snapshot is announced with "is a new file." unless
\* it leaves the folder again, and a tracked file that is gone is announced
\* with "was deleted." unless it comes back, whatever else happens to the
\* folder.
C14_EventuallyAnnounced ==
  /\ Untracked(a_txt) ~> (Announced("added", a_txt) \/ ~fs[a_txt].present)
  /\ Vanished(a_txt) ~> (Announced("deleted", a_txt) \/ fs[a_txt].present)

(***************************************************************************)
(* Errors inside the handlers (handlers one at a time).                     *)
(***************************************************************************)
\* C15: commit() and status() go through the whole tracked set whatever the
\* folder holds: commit() returns having reset every record whose file is
\* there, status() returns having printed one line for every tracked name;
\* neither ends in an exception.
C15_CommitStatusTotal ==
  [][/\ lastOp' = "commit" =>
          /\ console' = "running"
          /\ \A f \in DOMAIN files :
               fs[f].present => files'[f] = update_last_modified(files[f], fs[f])
     /\ lastOp' = "status" =>
          /\ console' = "running"
          /\ \A f \in DOMAIN files :
               Count(out', Line("status changed", f))
                 + Count(out', Line("status unchanged", f)) = 1]_vars

\* C16: in a scan, the content check of the loop over changed_files is
\* reached (filename.endswith('.txt') is true) for exactly the names whose
\* record in self.files is a TextFile.
C16_ContentCheckOnTextOnly ==
  [][ScanFiles =>
       \A f \in ChangedFiles(files, fs, ListDir(dir, fs)) :
         ShouldDisplay(last_displayed_state, f, "changed")
           => (EndsWithTxt(f) <=> files[f].cls = "TextFile")]_vars

(***************************************************************************)
(* The content-modified line (the background thread, statement by           *)
(* statement: the file may be rewritten between the first loop of           *)
(* detect_changes and the content check of the last one).                   *)
(***************************************************************************)
\* the names of changed_files
Names(changed_files) == {changed_files[i] : i \in 1..Len(changed_files)}

\* C17: in what a scan prints, every "A modification was detected in the
\* document '<f>'." line comes right after "<f> has changed."; and a file
\* whose mtime equals its record's baseline when the first loop looks at it
\* is not put into changed_files and gets no line from that scan, whatever
\* its content.
C17_ContentLineIsSecondary ==
  [][/\ lastOp' = "scan" =>
          \A i \in 1..Len(out') :
            out'[i].kind = "modified" =>
              i > 1 /\ out'[i-1] = Line("changed", out'[i].name)
     /\ \A f \in dir :
          (ScanCheck(f) /\ fs[f].present
             /\ Timestamp(files[f].last_updated_date) = fs[f].mtime)
            => scanT'.changed = scanT.changed
     /\ ScanReport =>
          \A f \in ((DOMAIN files) \cap (DOMAIN scanT.cur)) \ Names(scanT.changed) :
            LinesAbout(out', f) = {}]_vars

\* a scan has printed the content-modified line of a file
C17_Witness ==
  /\ lastOp = "scan"
  /\ \E i \in 1..Len(out) : out[i].kind = "modified"

(***************************************************************************)
(* The baseline and the de-duplication memory between handlers.             *)
(***************************************************************************)
\* C18: right after a scan has built the records, or commit() has called
\* update_last_modified() on each of them, and before the file system
\* changes, has_changed() is False for every record whose file is there,
\* whatever the file's mtime.
C18_BaselineRoundTrips ==
  (lastOp = "scan" \/ (lastOp = "commit" /\ console = "running")) =>
    \A f \in DOMAIN files : fs[f].present => ~has_changed(files[f], fs[f])

\* C19: between handlers, every name of self.files has the entry 'added' or
\* 'changed' in last_displayed_state, and every name that has an entry and
\* is not in self.files has the entry 'deleted'.
C19_MemoryAgreesWithSnapshot ==
  /\ \A f \in DOMAIN files :
       /\ f \in DOMAIN last_displayed_state
       /\ last_displayed_state[f] \in {"added", "changed"}
  /\ \A f \in (DOMAIN last_displayed_state) \ (DOMAIN files) :
       last_displayed_state[f] = "deleted"

====
